---- MODULE Spec2Model ----
(***************************************************************************)
(* Model of src/Table12.py, the Costa del Sol property viewer.             *)
(*                                                                         *)
(* The script is re-executed from top to bottom on every widget            *)
(* interaction: it reads the cached dataset, reads every sidebar control,  *)
(* filters, formats, sorts and renders.  One action of the model is one    *)
(* such pass, triggered either by the first page load or by the change of  *)
(* one control.                                                            *)
(*                                                                         *)
(* Numbers.  price and the integer columns are whole numbers.  The float   *)
(* columns size, airport_distance, av_rent and ROI are fixed-point         *)
(* numbers counted in 1/10000 (so 8.21 is 82100 and 0.0821 is 821);        *)
(* int(), round(x, 1), round(0) and the ".1f" format are computed on that  *)
(* representation.  Control values that the script compares with a float   *)
(* column are kept in the control's own unit and scaled at the comparison. *)
(*                                                                         *)
(* Text is a sequence of one-character strings, so that formatting and     *)
(* HTML escaping act on characters.                                        *)
(***************************************************************************)
EXTENDS Integers, Sequences, FiniteSets, TLC

VARIABLES cache, data, status, fs, filtered_data, table, result_count, passes

vars == <<cache, data, status, fs, filtered_data, table, result_count, passes>>

(* Size of the loaded dataset and number of widget interactions explored. *)
MaxRows == 2
MaxPasses == 2

(***************************************************************************)
(* The dataset: rows of the CSV file read by load_data.                    *)
(***************************************************************************)
L1 == [propertyCode |-> 5, price |-> 100000, size |-> 504000, rooms |-> 1,
       bathrooms |-> 1, airport_distance |-> 120000, av_rent |-> 800000,
       ROI |-> 300, municipality |-> <<"M">>, propertyType |-> "flat",
       url |-> <<"u", "1">>, restaurants |-> 1, hospitals |-> 0,
       clinics |-> 1, shops |-> 0]

L2 == [propertyCode |-> 9, price |-> 300500, size |-> 1200000, rooms |-> 3,
       bathrooms |-> 2, airport_distance |-> 300000, av_rent |-> 1500000,
       ROI |-> 821, municipality |-> <<"<", "b", ">">>, propertyType |-> "house",
       url |-> <<"u", "2">>, restaurants |-> 0, hospitals |-> 1,
       clinics |-> 0, shops |-> 1]

L3 == [propertyCode |-> 5, price |-> 300000, size |-> 850000, rooms |-> 2,
       bathrooms |-> 1, airport_distance |-> 76000, av_rent |-> 950000,
       ROI |-> 82600, municipality |-> <<"E">>, propertyType |-> "penthouse",
       url |-> <<"u", "3">>, restaurants |-> 1, hospitals |-> 1,
       clinics |-> 0, shops |-> 1]

Listings == {L1, L2, L3}

(* Every CSV content of at most MaxRows distinct listings, in every order. *)
Datasets ==
    UNION {{d \in [1..n -> Listings] : \A i, j \in 1..n : i # j => d[i] # d[j]} :
           n \in 0..MaxRows}

Range(s) == {s[i] : i \in DOMAIN s}

(***************************************************************************)
(* pandas / Python helpers                                                 *)
(***************************************************************************)
Column(frame, c) == [i \in DOMAIN frame |-> frame[i][c]]

(* Series.min() and Series.max(): NaN for an empty column. *)
NaN == [nan |-> TRUE, val |-> 0]
Num(v) == [nan |-> FALSE, val |-> v]

series_min(col) ==
    IF Len(col) = 0 THEN NaN
    ELSE Num(CHOOSE m \in Range(col) : \A v \in Range(col) : m <= v)

series_max(col) ==
    IF Len(col) = 0 THEN NaN
    ELSE Num(CHOOSE m \in Range(col) : \A v \in Range(col) : m >= v)

(* int(x / unit) for a non-negative number x; int(NaN) raises ValueError. *)
int_SentinelOnNaN(x, unit) == [raised |-> FALSE, val |-> x.val \div unit]

int_(x, unit) ==
    IF x.nan THEN [raised |-> TRUE, val |-> 0]
    ELSE [raised |-> FALSE, val |-> x.val \div unit]

(* round(x, 1) of a non-negative fixed-point number, in tenths;
   round-half-to-even on an exact tie. *)
round1(v) ==
    LET q == v \div 1000
        r == v % 1000
    IN  IF r > 500 \/ (r = 500 /\ q % 2 = 1) THEN q + 1 ELSE q

(* Series.round(0).astype(int) of a non-negative fixed-point number. *)
round0(v) ==
    LET q == v \div 10000
        r == v % 10000
    IN  IF r > 5000 \/ (r = 5000 /\ q % 2 = 1) THEN q + 1 ELSE q

(* sorted(data[c].unique()) *)
unique(frame, c) == Range(Column(frame, c))

(***************************************************************************)
(* Sidebar controls: the value each widget returns on the first pass       *)
(***************************************************************************)
NoFilterState == [created |-> FALSE]

(* valid_defaults: the desired default types that occur in the data. *)
desired_defaults == {"flat", "penthouse", "studio"}

valid_defaults(d) == {t \in desired_defaults : t \in unique(d, "propertyType")}

(* The integer bounds the script derives for the number inputs and the
   rent slider; the pass raises as soon as one int() raises. *)
derived_bounds(d) ==
    [price_min_k |-> int_(series_min(Column(d, "price")), 1000),
     price_max_k |-> int_(series_max(Column(d, "price")), 1000),
     size_min    |-> int_(series_min(Column(d, "size")), 10000),
     size_max    |-> int_(series_max(Column(d, "size")), 10000),
     airport_max |-> int_(series_max(Column(d, "airport_distance")), 10000),
     rent_min    |-> int_(series_min(Column(d, "av_rent")), 10000),
     rent_max    |-> int_(series_max(Column(d, "av_rent")), 10000)]

bounds_raise(d) == \E k \in DOMAIN derived_bounds(d) : derived_bounds(d)[k].raised

(* Ends of the ROI slider: round(roi_min, 1) and round(roi_max, 1), as
   fixed-point numbers. *)
roi_slider_min(d) == round1(series_min(Column(d, "ROI")).val) * 1000
roi_slider_max(d) == round1(series_max(Column(d, "ROI")).val) * 1000

default_controls(d) ==
    LET b == derived_bounds(d)
    IN  [created                |-> TRUE,
         price_min_k            |-> b.price_min_k.val,
         price_max_k            |-> b.price_max_k.val,
         size_min               |-> b.size_min.val,
         size_max               |-> b.size_max.val,
         airport_distance_max   |-> b.airport_max.val,
         av_rent_min            |-> b.rent_min.val,
         av_rent_max            |-> b.rent_max.val,
         selected_roi_range     |-> <<roi_slider_min(d), roi_slider_max(d)>>,
         rooms_selected         |-> {},
         municipality_selected  |-> {},
         property_type_selected |-> valid_defaults(d),
         restaurants_filter     |-> "All",
         hospitals_filter       |-> "All",
         clinics_filter         |-> "All",
         shops_filter           |-> "All"]

(***************************************************************************)
(* Filtering                                                               *)
(***************************************************************************)
(* price_min = price_min_k * 1000 and price_max = price_max_k * 1000 *)
price_units_Unscaled(k) == k

price_units(k) == k * 1000

(* The boolean mask of the first selection. *)
mask_StrictUpper(r, f) ==
    /\ r.price >= price_units(f.price_min_k)
    /\ r.price < price_units(f.price_max_k)
    /\ r.size >= f.size_min * 10000
    /\ r.size <= f.size_max * 10000
    /\ r.airport_distance <= f.airport_distance_max * 10000
    /\ r.av_rent >= f.av_rent_min * 10000
    /\ r.av_rent <= f.av_rent_max * 10000
    /\ r.ROI >= f.selected_roi_range[1]
    /\ r.ROI <= f.selected_roi_range[2]

mask_Or(r, f) ==
    /\ (r.price >= price_units(f.price_min_k) \/ r.price <= price_units(f.price_max_k))
    /\ (r.size >= f.size_min * 10000 \/ r.size <= f.size_max * 10000)
    /\ r.airport_distance <= f.airport_distance_max * 10000
    /\ r.av_rent >= f.av_rent_min * 10000
    /\ r.av_rent <= f.av_rent_max * 10000
    /\ r.ROI >= f.selected_roi_range[1]
    /\ r.ROI <= f.selected_roi_range[2]

mask(r, f) ==
    /\ r.price >= price_units(f.price_min_k)
    /\ r.price <= price_units(f.price_max_k)
    /\ r.size >= f.size_min * 10000
    /\ r.size <= f.size_max * 10000
    /\ r.airport_distance <= f.airport_distance_max * 10000
    /\ r.av_rent >= f.av_rent_min * 10000
    /\ r.av_rent <= f.av_rent_max * 10000
    /\ r.ROI >= f.selected_roi_range[1]
    /\ r.ROI <= f.selected_roi_range[2]

(* frame[frame[c].isin(selection)], applied only to a non-empty selection *)
isin_filter(frame, c, selection) ==
    IF selection # {}
    THEN LET Keep(r) == r[c] \in selection IN SelectSeq(frame, Keep)
    ELSE frame

(* frame[frame[c] == (1 if choice == 'Yes' else 0)], unless choice is 'All' *)
amenity_filter(frame, c, choice) ==
    IF choice # "All"
    THEN LET Keep(r) == r[c] = (IF choice = "Yes" THEN 1 ELSE 0)
         IN  SelectSeq(frame, Keep)
    ELSE frame

(* The selection of the rows, from the mask to the last amenity filter. *)
select_rows_FromData(d, f) ==
    LET Keep(r) == mask(r, f)
        s0 == SelectSeq(d, Keep)
        s1 == isin_filter(s0, "propertyType", f.property_type_selected)
        s2 == isin_filter(s1, "rooms", f.rooms_selected)
        s3 == isin_filter(s2, "municipality", f.municipality_selected)
        s4 == IF f.restaurants_filter # "All"
              THEN amenity_filter(d, "restaurants", f.restaurants_filter)
              ELSE s3
        s5 == amenity_filter(s4, "hospitals", f.hospitals_filter)
        s6 == amenity_filter(s5, "clinics", f.clinics_filter)
    IN  amenity_filter(s6, "shops", f.shops_filter)

select_rows(d, f) ==
    LET Keep(r) == mask(r, f)
        s0 == SelectSeq(d, Keep)
        s1 == isin_filter(s0, "propertyType", f.property_type_selected)
        s2 == isin_filter(s1, "rooms", f.rooms_selected)
        s3 == isin_filter(s2, "municipality", f.municipality_selected)
        s4 == amenity_filter(s3, "restaurants", f.restaurants_filter)
        s5 == amenity_filter(s4, "hospitals", f.hospitals_filter)
        s6 == amenity_filter(s5, "clinics", f.clinics_filter)
    IN  amenity_filter(s6, "shops", f.shops_filter)

(* The script's two frames after the selection: `data` is only read, every
   selection builds a new frame that is bound to `filtered_data`. *)
frames_after_selection_InPlace(d, f) ==
    [data |-> select_rows(d, f), filtered_data |-> select_rows(d, f)]

frames_after_selection(d, f) ==
    [data |-> d, filtered_data |-> select_rows(d, f)]

(***************************************************************************)
(* Presentation                                                            *)
(***************************************************************************)
DigitChar(d) == <<"0", "1", "2", "3", "4", "5", "6", "7", "8", "9">>[d + 1]

(* str(n) of a non-negative integer *)
RECURSIVE str_int(_)
str_int(n) ==
    IF n < 10 THEN <<DigitChar(n)>>
    ELSE str_int(n \div 10) \o <<DigitChar(n % 10)>>

(* f"{int(x):,}".replace(",", " "): groups of three digits,
  space-separated *)
RECURSIVE format_price(_)
format_price(n) ==
    IF n < 1000 THEN str_int(n)
    ELSE format_price(n \div 1000) \o <<" ">>
         \o <<DigitChar((n \div 100) % 10), DigitChar((n \div 10) % 10), DigitChar(n % 10)>>

(* f"{x:.1f} %": the stored value itself, rounded to one decimal *)
format_roi_Truncated(v) ==
    str_int((v \div 1000) \div 10) \o <<".">> \o <<DigitChar((v \div 1000) % 10)>>
    \o <<" ", "%">>

format_roi(v) ==
    str_int(round1(v) \div 10) \o <<".">> \o <<DigitChar(round1(v) % 10)>>
    \o <<" ", "%">>

(* '<span class="green-icon">[U+2714]</span>'; the check mark glyph is
   written "V" here. *)
green_icon ==
    <<"<", "s", "p", "a", "n", " ", "c", "l", "a", "s", "s", "=", "\"",
      "g", "r", "e", "e", "n", "-", "i", "c", "o", "n", "\"", ">", "V",
      "<", "/", "s", "p", "a", "n", ">">>

format_amenity(value) == IF value = 1 THEN green_icon ELSE <<>>

(* f'<a href="{x}" target="_blank">View</a>' *)
link_anchor(x) ==
    <<"<", "a", " ", "h", "r", "e", "f", "=", "\"">> \o x
    \o <<"\"", " ", "t", "a", "r", "g", "e", "t", "=", "\"", "_", "b", "l",
      "a", "n", "k", "\"", ">", "V", "i", "e", "w", "<", "/", "a", ">">>

(* sort_values(by='propertyCode', ascending=False) with the default
   kind='quicksort', which is not a stable sort: the rows come out in
   descending order of propertyCode and rows of equal propertyCode in any
   order. *)
RemoveAt(frame, i) == SubSeq(frame, 1, i - 1) \o SubSeq(frame, i + 1, Len(frame))

RECURSIVE sort_values(_)
sort_values(frame) ==
    IF frame = <<>> THEN {<<>>}
    ELSE LET top == series_max(Column(frame, "propertyCode")).val
         IN  UNION {{<<frame[i]>> \o rest : rest \in sort_values(RemoveAt(frame, i))} :
                    i \in {j \in DOMAIN frame : frame[j].propertyCode = top}}

columns_to_display ==
    <<"ROI", "price", "size", "rooms", "bathrooms", "Restaurants", "Shops",
      "av_rent", "airport_distance", "municipality", "Link",
        "propertyCode">>

(* format_amenity and the Link column are attached to filtered_data, then
   the formatting steps rewrite the numeric columns as text. *)
formatted_row(r) ==
    [ROI              |-> format_roi(r.ROI),
     price            |-> format_price(r.price),
     size             |-> str_int(r.size \div 10000),
     rooms            |-> str_int(r.rooms),
     bathrooms        |-> str_int(r.bathrooms),
     Restaurants      |-> format_amenity(r.restaurants),
     Shops            |-> format_amenity(r.shops),
     av_rent          |-> str_int(r.av_rent \div 10000),
     airport_distance |-> str_int(round0(r.airport_distance)),
     municipality     |-> r.municipality,
     Link             |-> link_anchor(r.url),
     propertyCode     |-> str_int(r.propertyCode)]

(* One row of filtered_data_display: the projection on columns_to_display. *)
display_row(r) ==
    LET row == formatted_row(r)
    IN  [c \in Range(columns_to_display) |-> row[c]]

filtered_data_display(frame) == [i \in DOMAIN frame |-> display_row(frame[i])]

(* What DataFrame.to_html does to a cell's text when escape=True. *)
RECURSIVE html_escape(_)
html_escape(t) ==
    IF t = <<>> THEN <<>>
    ELSE (CASE Head(t) = "<" -> <<"&", "l", "t", ";">>
            [] Head(t) = ">" -> <<"&", "g", "t", ";">>
            [] Head(t) = "&" -> <<"&", "a", "m", "p", ";">>
            [] OTHER -> <<Head(t)>>) \o html_escape(Tail(t))

(* to_html(escape=False, index=False): the text of every cell is emitted as
   it is. *)
to_html(display, escape) ==
    [i \in DOMAIN display |->
        [c \in DOMAIN display[i] |->
            IF escape THEN html_escape(display[i][c]) ELSE display[i][c]]]

table_html(display) == to_html(display, FALSE)

(***************************************************************************)
(* Values a user gives to the controls                                     *)
(***************************************************************************)
PriceInputs == {0, 100, 300, 10000}
SizeInputs == {0, 60, 200}

(* number_input(min_value=0, max_value=int(max)) *)
AirportInputs(d) == {v \in {0, 10} : v <= derived_bounds(d).airport_max.val}

(* A slider returns a pair lo <= hi between its two ends; the widget is taken
   to accept equal ends, as for a dataset of one row. *)
RentStops(d) ==
    {v \in {derived_bounds(d).rent_min.val, 90, derived_bounds(d).rent_max.val} :
        derived_bounds(d).rent_min.val <= v /\ v <= derived_bounds(d).rent_max.val}

RoiStops(d) ==
    {v \in {roi_slider_min(d), 50000, roi_slider_max(d)} :
        roi_slider_min(d) <= v /\ v <= roi_slider_max(d)}

SliderRanges(stops) == {rg \in stops \X stops : rg[1] <= rg[2]}

TriState == {"All", "Yes", "No"}

(***************************************************************************)
(* State machine                                                           *)
(***************************************************************************)
Init ==
    /\ cache \in Datasets
    /\ data = <<>>
    /\ status = "fresh"
    /\ fs = NoFilterState
    /\ filtered_data = <<>>
    /\ table = <<>>
    /\ result_count = 0
    /\ passes = 0

(* One execution of the script body below the sidebar, with the controls
   returning f. *)
Pass(f) ==
    \E frames \in {frames_after_selection(cache, f)} :
        \E sorted \in sort_values(frames.filtered_data) :
        \E display \in {filtered_data_display(sorted)} :
            /\ data' = frames.data
            /\ filtered_data' = sorted
            /\ result_count' = Len(display)
            /\ table' = table_html(display)
            /\ fs' = f
            /\ status' = "ok"
            /\ UNCHANGED cache

(* The first execution: every control returns its default; int() of the
   minimum of an empty column raises and ends the script. *)
FirstRun ==
    /\ status = "fresh"
    /\ UNCHANGED passes
    /\ IF bounds_raise(cache)
       THEN /\ status' = "error"
            /\ data' = cache
            /\ UNCHANGED <<cache, fs, filtered_data, table, result_count>>
       ELSE Pass(default_controls(cache))

(* A widget interaction: the control takes the new value, the script runs
   again.  Controls exist once a first pass has created them. *)
CanInteract == status = "ok" /\ passes < MaxPasses

Interact(f) ==
    /\ f # fs
    /\ passes' = passes + 1
    /\ Pass(f)

SetPriceMin ==
    /\ CanInteract
    /\ \E v \in PriceInputs : Interact([fs EXCEPT !.price_min_k = v])

SetPriceMax ==
    /\ CanInteract
    /\ \E v \in PriceInputs : Interact([fs EXCEPT !.price_max_k = v])

SetSizeMin ==
    /\ CanInteract
    /\ \E v \in SizeInputs : Interact([fs EXCEPT !.size_min = v])

SetSizeMax ==
    /\ CanInteract
    /\ \E v \in SizeInputs : Interact([fs EXCEPT !.size_max = v])

SetAirportMax ==
    /\ CanInteract
    /\ \E v \in AirportInputs(cache) :
           Interact([fs EXCEPT !.airport_distance_max = v])

SetRentRange ==
    /\ CanInteract
    /\ \E rg \in SliderRanges(RentStops(cache)) :
           Interact([fs EXCEPT !.av_rent_min = rg[1], !.av_rent_max = rg[2]])

SetRoiRange ==
    /\ CanInteract
    /\ \E rg \in SliderRanges(RoiStops(cache)) :
           Interact([fs EXCEPT !.selected_roi_range = rg])

SelectRooms ==
    /\ CanInteract
    /\ \E sel \in SUBSET unique(cache, "rooms") :
           Interact([fs EXCEPT !.rooms_selected = sel])

SelectMunicipality ==
    /\ CanInteract
    /\ \E sel \in SUBSET unique(cache, "municipality") :
           Interact([fs EXCEPT !.municipality_selected = sel])

SelectPropertyType ==
    /\ CanInteract
    /\ \E sel \in SUBSET unique(cache, "propertyType") :
           Interact([fs EXCEPT !.property_type_selected = sel])

SetRestaurants ==
    /\ CanInteract
    /\ \E v \in TriState : Interact([fs EXCEPT !.restaurants_filter = v])

SetHospitals ==
    /\ CanInteract
    /\ \E v \in TriState : Interact([fs EXCEPT !.hospitals_filter = v])

SetClinics ==
    /\ CanInteract
    /\ \E v \in TriState : Interact([fs EXCEPT !.clinics_filter = v])

SetShops ==
    /\ CanInteract
    /\ \E v \in TriState : Interact([fs EXCEPT !.shops_filter = v])

Next ==
    \/ FirstRun
    \/ SetPriceMin
    \/ SetPriceMax
    \/ SetSizeMin
    \/ SetSizeMax
    \/ SetAirportMax
    \/ SetRentRange
    \/ SetRoiRange
    \/ SelectRooms
    \/ SelectMunicipality
    \/ SelectPropertyType
    \/ SetRestaurants
    \/ SetHospitals
    \/ SetClinics
    \/ SetShops

Spec == Init /\ [][Next]_vars

(***************************************************************************)
(* Properties                                                              *)
(***************************************************************************)
(* The predicates of the filter contract, stated on one row. *)
SatisfiesPrice(r, f) ==
    f.price_min_k * 1000 <= r.price /\ r.price <= f.price_max_k * 1000

SatisfiesOthers(r, f) ==
    /\ f.size_min * 10000 <= r.size /\ r.size <= f.size_max * 10000
    /\ r.airport_distance <= f.airport_distance_max * 10000
    /\ f.av_rent_min * 10000 <= r.av_rent /\ r.av_rent <= f.av_rent_max * 10000
    /\ f.selected_roi_range[1] <= r.ROI /\ r.ROI <= f.selected_roi_range[2]
    /\ (f.property_type_selected = {} \/ r.propertyType \in f.property_type_selected)
    /\ (f.rooms_selected = {} \/ r.rooms \in f.rooms_selected)
    /\ (f.municipality_selected = {} \/ r.municipality \in f.municipality_selected)
    /\ \A a \in {"restaurants", "hospitals", "clinics", "shops"} :
           LET choice == IF a = "restaurants" THEN f.restaurants_filter
                         ELSE IF a = "hospitals" THEN f.hospitals_filter
                         ELSE IF a = "clinics" THEN f.clinics_filter
                         ELSE f.shops_filter
           IN  \/ choice = "All"
               \/ choice = "Yes" /\ r[a] = 1
               \/ choice = "No" /\ r[a] = 0

(* C1: with every control at its derived default, the filtered result is
   the full dataset: no row is excluded. *)
C1_DefaultCoverage ==
    (status = "ok" /\ fs = default_controls(cache)) =>
        /\ Range(filtered_data) = Range(cache)
        /\ Len(filtered_data) = Len(cache)

(* C2: the filtered result is exactly the set of rows of the dataset that
   satisfy every predicate of the current FilterState: none that satisfies
   all is dropped, none that violates one is kept, none is duplicated. *)
C2_ExactConjunction ==
    status = "ok" =>
        /\ Range(filtered_data) =
               {r \in Range(cache) : SatisfiesPrice(r, fs) /\ SatisfiesOthers(r, fs)}
        /\ Len(filtered_data) = Cardinality(Range(filtered_data))

C2_Witness ==
    /\ status = "ok"
    /\ fs.restaurants_filter = "Yes"
    /\ fs.rooms_selected # {}
    /\ Len(filtered_data) = 1
    /\ Len(cache) = 2

(* B is A with one more restriction: one control differs, and it is tighter
   in B than in A. *)
Tighter(A, B) ==
    /\ B.price_min_k >= A.price_min_k
    /\ B.price_max_k <= A.price_max_k
    /\ B.size_min >= A.size_min
    /\ B.size_max <= A.size_max
    /\ B.airport_distance_max <= A.airport_distance_max
    /\ B.av_rent_min >= A.av_rent_min
    /\ B.av_rent_max <= A.av_rent_max
    /\ B.selected_roi_range[1] >= A.selected_roi_range[1]
    /\ B.selected_roi_range[2] <= A.selected_roi_range[2]
    /\ \A c \in {"property_type_selected", "rooms_selected", "municipality_selected"} :
           \/ B[c] = A[c]
           \/ A[c] = {} /\ B[c] # {}
           \/ B[c] # {} /\ B[c] \subseteq A[c]
    /\ \A c \in {"restaurants_filter", "hospitals_filter", "clinics_filter",
                 "shops_filter"} :
           B[c] = A[c] \/ A[c] = "All"

AddsRestriction(A, B) == A # B /\ Tighter(A, B)

(* C3: when an interaction adds one restriction to the FilterState, the new
   result is a subset of the previous result. *)
C3_Monotone ==
    [][(status = "ok" /\ AddsRestriction(fs, fs')) =>
           Range(filtered_data') \subseteq Range(filtered_data)]_vars

C3_Witness ==
    /\ status = "ok"
    /\ passes = 1
    /\ AddsRestriction(default_controls(cache), fs)
    /\ Len(filtered_data) = 1
    /\ Len(select_rows(cache, default_controls(cache))) = 2

(* C4: no pass changes the cached dataset, and the frame bound to `data`
   at the end of every pass is that dataset, whatever passes ran before. *)
C4_CanonicalUnchanged ==
    [][cache' = cache /\ (status' # "fresh" => data' = cache)]_vars

C4_Witness ==
    /\ status = "ok"
    /\ passes = 2
    /\ Len(cache) = 2
    /\ Len(filtered_data) = 1
    /\ data = cache

(* Reading a rendered ROI cell back: digits, ".", one digit, " %". *)
DigitVal(c) == CHOOSE d \in 0..9 : DigitChar(d) = c

IsDigit(c) == \E d \in 0..9 : DigitChar(d) = c

RECURSIVE parse_int(_)
parse_int(t) ==
    IF Len(t) = 1 THEN DigitVal(t[1])
    ELSE parse_int(SubSeq(t, 1, Len(t) - 1)) * 10 + DigitVal(t[Len(t)])

OneDecimalPercent(t) ==
    /\ Len(t) >= 5
    /\ t[Len(t)] = "%"
    /\ t[Len(t) - 1] = " "
    /\ IsDigit(t[Len(t) - 2])
    /\ t[Len(t) - 3] = "."
    /\ \A i \in 1..(Len(t) - 4) : IsDigit(t[i])

(* The number a well-formed cell shows, in tenths. *)
ShownTenths(t) == parse_int(SubSeq(t, 1, Len(t) - 4)) * 10 + DigitVal(t[Len(t) - 2])

(* t shows the fixed-point number v rounded to the nearest tenth. *)
ShowsValue(t, v) ==
    /\ OneDecimalPercent(t)
    /\ ShownTenths(t) * 1000 - v <= 500
    /\ v - ShownTenths(t) * 1000 <= 500

C6_EmptyFailsFast ==
    (cache = <<>> /\ status # "fresh") =>
        /\ status = "error"
        /\ fs = NoFilterState
        /\ filtered_data = <<>>
        /\ table = <<>>

C6_Witness == cache = <<>> /\ status = "error" /\ data = <<>>

(* C7: a FilterState whose lower bound exceeds its upper bound is evaluated
   without error and yields no row and a results count of 0. *)
Inverted(f) ==
    \/ f.price_min_k > f.price_max_k
    \/ f.size_min > f.size_max
    \/ f.av_rent_min > f.av_rent_max
    \/ f.selected_roi_range[1] > f.selected_roi_range[2]

C7_InvertedEmpty ==
    (fs # NoFilterState /\ Inverted(fs)) =>
        /\ status = "ok"
        /\ filtered_data = <<>>
        /\ table = <<>>
        /\ result_count = 0

C7_Witness ==
    /\ status = "ok"
    /\ fs.price_min_k = 10000
    /\ fs.price_max_k = 0
    /\ Len(select_rows(cache, default_controls(cache))) = 2
    /\ result_count = 0

(* C8: with the price bounds 100 and 300 entered, the rows retained are,
   among those passing the other filters, exactly the rows whose raw price
   lies in [100000, 300000]. *)
C8_PriceUnits ==
    (status = "ok" /\ fs.price_min_k = 100 /\ fs.price_max_k = 300) =>
        Range(filtered_data) =
            {r \in Range(cache) :
                100000 <= r.price /\ r.price <= 300000 /\ SatisfiesOthers(r, fs)}

C8_Witness ==
    /\ status = "ok"
    /\ fs.price_min_k = 100
    /\ fs.price_max_k = 300
    /\ \E r \in Range(filtered_data) : r.price = 100000
    /\ \E r \in Range(cache) :
           r.price > 300000 /\ SatisfiesOthers(r, fs) /\ r \notin Range(filtered_data)

(* C9: the output rows are in descending order of propertyCode and rows of
   equal propertyCode keep the order they have in the dataset. *)
Position(frame, r) == CHOOSE i \in DOMAIN frame : frame[i] = r

C9_StableDescending ==
    status = "ok" =>
        \A i, j \in DOMAIN filtered_data :
            i < j =>
                /\ filtered_data[i].propertyCode >= filtered_data[j].propertyCode
                /\ filtered_data[i].propertyCode = filtered_data[j].propertyCode
                       => Position(cache, filtered_data[i]) < Position(cache, filtered_data[j])

(* C10: every cell whose text comes from the data is emitted escaped; only
   the link anchor and the amenity markers are emitted as raw markup. *)
data_columns ==
    {"ROI", "price", "size", "rooms", "bathrooms", "av_rent", "airport_distance",
     "municipality", "propertyCode"}

C10_DataCellsEscaped ==
    status = "ok" =>
        \A i \in DOMAIN table :
            /\ \A c \in data_columns :
                   table[i][c] = html_escape(display_row(filtered_data[i])[c])
            /\ \A c \in {"Link", "Restaurants", "Shops"} :
                   table[i][c] = display_row(filtered_data[i])[c]

====
